---- MODULE Spec2Model ----
(***************************************************************************)
(* A model of the ExportToCNC Rhino commands and of their CSV record store *)
(* (csv_crud.py): the "dev" command of the plug-in folder, the older       *)
(* top-level command, and the csv_crud functions on their own.             *)
(*                                                                         *)
(* Python values are records [t, s, n] (a tag, a string, a number) so that *)
(* None, strings, ints and floats can be compared with one another, as     *)
(* Python compares them.  A CSV file is the sequence of its lines, each a  *)
(* sequence of cells (strings), as the file holds them: csv.DictWriter     *)
(* places a dictionary's values by ITS fieldnames, csv.DictReader names a  *)
(* row's cells by the FILE's first line.                                   *)
(***************************************************************************)
EXTENDS Integers, Sequences, FiniteSets, TLC

(***************************************************************************)
(* Bounds of the model.                                                    *)
(***************************************************************************)
\* Most data rows a DATA.csv holds before the commands stop adding rows.
MaxRows == 2
\* Most export commands issued to the host before the commands stop.
MaxExports == 2

(***************************************************************************)
(* Python values.                                                          *)
(***************************************************************************)
PyNone == [t |-> "None", s |-> "", n |-> 0]

PyStr(x) == [t |-> "str", s |-> x, n |-> 0]

PyInt(k) == [t |-> "int", s |-> "", n |-> k]

PyFloat(k) == [t |-> "float", s |-> "", n |-> k]

\* bool(v), as "if not v" tests it.
Truthy(v) ==
    CASE v.t = "None" -> FALSE
      [] v.t = "str" -> v.s # ""
      [] OTHER -> v.n # 0

DigitChar == <<"0", "1", "2", "3", "4", "5", "6", "7", "8", "9">>

RECURSIVE NatToStr(_)
NatToStr(k) ==
    IF k < 10 THEN DigitChar[k + 1]
    ELSE NatToStr(k \div 10) \o DigitChar[(k % 10) + 1]

\* str(k) of an int.
IntToStr(k) == IF k < 0 THEN "-" \o NatToStr(-k) ELSE NatToStr(k)

\* "{}".format(v) and str(v); a float here is integer-valued ("1.0").
Format(v) ==
    CASE v.t = "None" -> "None"
      [] v.t = "str" -> v.s
      [] v.t = "int" -> IntToStr(v.n)
      [] OTHER -> IntToStr(v.n) \o ".0"

\* The text csv.writer puts in a cell: None is written as the empty string,
\* a float by repr(), anything else by str().
CsvField(v) == IF v.t = "None" THEN "" ELSE Format(v)

(***************************************************************************)
(* csv_crud.py: the column headers of the two versions of the module.      *)
(***************************************************************************)
csv_headers ==
    << "Row", "Flex Customer", "Site", "Building", "ID ATC",
       "Model or customer ID", "Product", "File name", "Requester",
       "Empty1", "Empty2", "Material", "Designer", "Sizes", "Quantity",
       "Type", "Empty3", "Empty4", "Empty5", "Empty6", "Empty7", "Empty8",
       "Empty9", "Empty10", "Empty11", "File Path", "Special details" >>

top_csv_headers ==
    << "Row", "Flex Customer", "Site", "Building", "ID", "Product",
       "Requester", "Empty1", "Empty2", "Material", "Designer", "Sizes",
       "Quantity", "Empty3", "Empty4", "Empty5", "Empty6", "Empty7",
       "Empty8", "File Path", "File name", "Special details" >>

Range(s) == {s[i] : i \in 1..Len(s)}

\* The position a name stands for in a header: dict(zip(fieldnames, row))
\* keeps the last of several equal names.
IndexOf(s, x) ==
    CHOOSE i \in 1..Len(s) : s[i] = x /\ \A j \in (i + 1)..Len(s) : s[j] # x

(***************************************************************************)
(* Files.  A file is the sequence of its lines, each line a sequence of    *)
(* cells; the first line of a CSV file is its header.  A path that holds   *)
(* no file is NoFile.                                                      *)
(***************************************************************************)
NoFile == [exists |-> FALSE, lines |-> <<>>]

File(ls) == [exists |-> TRUE, lines |-> ls]

\* reader.fieldnames: the first line (None, here <<>>, for an empty file).
Header(f) == IF f.lines = <<>> THEN <<>> ELSE Head(f.lines)

\* The lines DictReader iterates over: all but the header.
DataRows(f) == IF f.lines = <<>> THEN <<>> ELSE Tail(f.lines)

(***************************************************************************)
(* csv.DictReader and csv.DictWriter.  A dictionary is a function from its *)
(* keys to Python values.                                                  *)
(***************************************************************************)
\* The key DictReader files surplus cells under (restkey=None).
RestKey == "<restkey None>"

\* One row as DictReader yields it: the header's names to the cells at
\* their positions, None (restval) where the row is short, and the
\* surplus cells of a long row under the restkey.
DictReaderRow(header, cells) ==
    LET keys == Range(header) \cup
                (IF Len(cells) > Len(header) THEN {RestKey} ELSE {})
    IN  [k \in keys |->
            IF k = RestKey THEN PyStr("")
            ELSE IF IndexOf(header, k) <= Len(cells)
                 THEN PyStr(cells[IndexOf(header, k)])
                 ELSE PyNone]

\* Whether DictWriter(fieldnames).writerow(d) raises ValueError: the
\* dictionary holds a key that is no fieldname (extrasaction="raise").
WriterRejects(fieldnames, d) == \E k \in DOMAIN d : k \notin Range(fieldnames)

\* The cells DictWriter(fieldnames).writerow(d) writes: d's values in the
\* order of the fieldnames, a missing key as the empty string (restval).
RECURSIVE DictWriterRow(_, _)
DictWriterRow(fieldnames, d) ==
    IF fieldnames = <<>> THEN <<>>
    ELSE <<IF Head(fieldnames) \in DOMAIN d
           THEN CsvField(d[Head(fieldnames)]) ELSE "">>
         \o DictWriterRow(Tail(fieldnames), d)

\* row.update(new_data)
DictUpdate(row, new_data) ==
    [k \in (DOMAIN row) \cup (DOMAIN new_data) |->
        IF k \in DOMAIN new_data THEN new_data[k] ELSE row[k]]

(***************************************************************************)
(* csv_crud.py.  Each function is an operator from the file at filepath,   *)
(* its arguments and the open() call that fails (fail = 0: none; 1: the    *)
(* first open of the call; 2: the second) to what the call leaves behind:  *)
(*   file    the file afterwards,                                          *)
(*   ret     the value returned (PyNone when an exception leaves it),      *)
(*   raised  the exception that leaves the function ("" when none does),   *)
(*   printed the error the function printed ("" when none),                *)
(*   box     the title of the message box it showed ("" when none).        *)
(***************************************************************************)
Result(f, ret, raised, printed, box) ==
    [file |-> f, ret |-> ret, raised |-> raised, printed |-> printed,
     box |-> box]

\* open(filepath, "r") raises IOError: the file is missing, or the
\* environment refuses it (a lock, a permission).
OpenReadFails(f, failing) == failing \/ ~f.exists

CreateNewCsvOverwrites(f, fail) ==
    IF fail = 1 THEN Result(f, PyNone, "", "IOError", "")
    ELSE Result(File(<<csv_headers>>), PyNone, "", "", "")

create_new_csv(f, fail) ==
    IF f.exists THEN Result(f, PyNone, "", "", "")
    ELSE IF fail = 1 THEN Result(f, PyNone, "", "IOError", "")
    ELSE Result(File(<<csv_headers>>), PyNone, "", "", "")

top_create_new_csv(f, fail) ==
    IF f.exists THEN Result(f, PyNone, "", "", "")
    ELSE IF fail = 1 THEN Result(f, PyNone, "", "IOError", "")
    ELSE Result(File(<<top_csv_headers>>), PyNone, "", "", "")

\* The loop of get_row_index over the rows left to read: -1 at the first
\* row whose "File name" equals name, else the count; "KeyError" when the
\* header names no "File name" column.
RECURSIVE ScanRows(_, _, _, _)
ScanRows(header, rows, name, row_counter) ==
    IF rows = <<>> THEN [ret |-> row_counter, raised |-> ""]
    ELSE IF "File name" \notin Range(header)
         THEN [ret |-> 0, raised |-> "KeyError"]
    ELSE IF DictReaderRow(header, Head(rows))["File name"] = name
         THEN [ret |-> -1, raised |-> ""]
    ELSE ScanRows(header, Tail(rows), name, row_counter + 1)

GetRowIndexMissesRepeat(f, name, fail) ==
    IF OpenReadFails(f, fail = 1) THEN Result(f, PyNone, "IOError", "", "")
    ELSE LET r == ScanRows(Header(f),
                           IF DataRows(f) = <<>> THEN <<>>
                           ELSE <<Head(DataRows(f))>>, name, 0)
         IN  IF r.raised # "" THEN Result(f, PyNone, r.raised, "", "")
             ELSE IF r.ret = -1 THEN Result(f, PyInt(-1), "", "", "")
             ELSE Result(f, PyInt(Len(DataRows(f))), "", "", "")

get_row_index(f, name, fail) ==
    IF OpenReadFails(f, fail = 1) THEN Result(f, PyNone, "IOError", "", "")
    ELSE LET r == ScanRows(Header(f), DataRows(f), name, 0)
         IN  IF r.raised # "" THEN Result(f, PyNone, r.raised, "", "")
             ELSE Result(f, PyInt(r.ret), "", "", "")

\* int(s) of a string succeeds on a decimal integer literal only.
IsIntLiteral(s) == s \in {IntToStr(k) : k \in 0..100}

\* The exception int(v) raises ("" when it returns).
IntRaises(v) ==
    CASE v.t = "None" -> "TypeError"
      [] v.t = "str" -> IF IsIntLiteral(v.s) THEN "" ELSE "ValueError"
      [] OTHER -> ""

\* open(filepath, "ab") followed by DictWriter(fieldnames).writerow(d):
\* the open creates a missing file, the row goes after the last line.
AppendRow(f, fieldnames, d) == File(Append(f.lines, DictWriterRow(fieldnames, d)))

AddDataRowOverwrites(f, data_dict, fail) ==
    IF fail = 1 THEN Result(f, PyNone, "", "add_data_row", "")
    ELSE Result(File(<<Header(f), DictWriterRow(csv_headers, data_dict)>>),
                PyNone, "", "", "Data saved")

\* add_data_row without its try/except.
AddDataRowNoHandler(f, data_dict, fail) ==
    IF fail = 1 THEN Result(f, PyNone, "IOError", "", "")
    ELSE Result(AppendRow(f, csv_headers, data_dict), PyNone, "", "",
                "Data saved")

add_data_row(f, data_dict, fail) ==
    IF ~({"File name", "Material", "Quantity"} \subseteq DOMAIN data_dict)
    THEN Result(f, PyNone, "KeyError", "", "")
    ELSE IF IntRaises(data_dict["Quantity"]) # ""
    THEN Result(f, PyNone, IntRaises(data_dict["Quantity"]), "", "")
    ELSE IF fail = 1 THEN Result(f, PyNone, "", "add_data_row", "")
    ELSE IF WriterRejects(csv_headers, data_dict)
    THEN Result(File(f.lines), PyNone, "ValueError", "", "")
    ELSE Result(AppendRow(f, csv_headers, data_dict), PyNone, "", "",
                "Data saved")

top_add_data_row(f, data_dict, fail) ==
    IF fail = 1 THEN Result(f, PyNone, "", "add_data_row", "")
    ELSE IF WriterRejects(top_csv_headers, data_dict)
    THEN Result(File(f.lines), PyNone, "ValueError", "", "")
    ELSE Result(AppendRow(f, top_csv_headers, data_dict), PyNone, "", "",
                "Data saved")

\* The loop with a break after the first updated row.
RECURSIVE UpdateFirstRowOnly(_, _, _, _, _, _)
UpdateFirstRowOnly(headers, rows, name, new_data, written, box) ==
    IF rows = <<>> THEN [lines |-> written, raised |-> "", box |-> box]
    ELSE LET row == DictReaderRow(headers, Head(rows))
             hit == box = "" /\ row["File name"] = name
             out == IF hit THEN DictUpdate(row, new_data) ELSE row
         IN  UpdateFirstRowOnly(headers, Tail(rows), name, new_data,
                                Append(written, DictWriterRow(headers, out)),
                                IF hit THEN "Data updated" ELSE box)

\* The rewrite loop of update_data_row over the rows left to write, after
\* the lines `written`: every row whose "File name" equals name is updated
\* with new_data, every row is written back.  An exception leaves the file
\* with the lines written so far.
RECURSIVE UpdateRows(_, _, _, _, _, _)
UpdateRows(headers, rows, name, new_data, written, box) ==
    IF rows = <<>> THEN [lines |-> written, raised |-> "", box |-> box]
    ELSE IF "File name" \notin Range(headers)
    THEN [lines |-> written, raised |-> "KeyError", box |-> box]
    ELSE LET row == DictReaderRow(headers, Head(rows))
             hit == row["File name"] = name
             out == IF hit THEN DictUpdate(row, new_data) ELSE row
             shown == IF hit THEN "Data updated" ELSE box
         IN  IF WriterRejects(headers, out)
             THEN [lines |-> written, raised |-> "ValueError", box |-> shown]
             ELSE UpdateRows(headers, Tail(rows), name, new_data,
                             Append(written, DictWriterRow(headers, out)),
                             shown)

update_data_row(f, name, new_data, fail) ==
    IF OpenReadFails(f, fail = 1)
    THEN Result(f, PyNone, "", "update_data_row", "")
    ELSE IF fail = 2 THEN Result(f, PyNone, "", "update_data_row", "")
    ELSE IF Header(f) = <<>> THEN Result(File(<<>>), PyNone, "TypeError", "", "")
    ELSE LET r == UpdateRows(Header(f), DataRows(f), name, new_data,
                             <<Header(f)>>, "")
         IN  Result(File(r.lines), PyNone, r.raised, "", r.box)

\* next(reader) of read_project_data: the first data row as a dictionary.
FirstRow(f) == DictReaderRow(Header(f), Head(DataRows(f)))

(***************************************************************************)
(* The folders the user may pick in rs.BrowseForFolder: one that follows   *)
(* the project schema, one that does not, and one that matches the loose   *)
(* pattern of get_savefolder_name but not the strict one of the dev        *)
(* create_filename.  TLC's strings are atomic, so the regular expressions  *)
(* work on the characters of a string, which Chars looks up.               *)
(***************************************************************************)
ProjectFolderChars ==
    << "C", ":", "\\", "D", "M", "-", "G", "D", "N", "0", "3", "-",
       "2", "2", "0", "0", "0", "1" >>

PlainFolderChars == << "C", ":", "\\", "t", "m", "p" >>

LooseFolderChars ==
    << "C", ":", "\\", "D", "M", "-", "A", "B", "-",
       "c", "u", "t", "t", "e", "r" >>

RECURSIVE Join(_)
Join(chars) == IF chars = <<>> THEN "" ELSE Head(chars) \o Join(Tail(chars))

ProjectFolder == Join(ProjectFolderChars)

PlainFolder == Join(PlainFolderChars)

LooseFolder == Join(LooseFolderChars)

Folders == {ProjectFolder, PlainFolder, LooseFolder}

\* The pieces of the folder paths: the strings a regular expression is
\* applied to or returns.
Pieces ==
    UNION { {SubSeq(c, i, j) : i \in 1..Len(c), j \in 1..Len(c)} :
            c \in {ProjectFolderChars, PlainFolderChars, LooseFolderChars} }

\* The characters of a string.
Chars(str) == CHOOSE c \in Pieces : Join(c) = str

Digits == {"0", "1", "2", "3", "4", "5", "6", "7", "8", "9"}

Letters ==
    { "A", "B", "C", "D", "E", "F", "G", "H", "I", "J", "K", "L", "M",
      "N", "O", "P", "Q", "R", "S", "T", "U", "V", "W", "X", "Y", "Z",
      "a", "b", "c", "d", "e", "f", "g", "h", "i", "j", "k", "l", "m",
      "n", "o", "p", "q", "r", "s", "t", "u", "v", "w", "x", "y", "z" }

\* \w of Python's re
WordChars == Letters \cup Digits \cup {"_"}

\* re.search("DM-.*-.{6}", str): the leftmost "DM-", then as much as can be
\* taken (.* is greedy) up to a "-" that six characters follow.  The group
\* matched, or PyNone.
SearchLoose(str) ==
    LET c == Chars(str)
        starts == {i \in 1..(Len(c) - 2) : SubSeq(c, i, i + 2) = <<"D", "M", "-">>}
        dashes(i) == {j \in (i + 3)..(Len(c) - 6) : c[j] = "-"}
        hits == {i \in starts : dashes(i) # {}}
    IN  IF hits = {} THEN PyNone
        ELSE LET i == CHOOSE x \in hits : \A y \in hits : x <= y
                 j == CHOOSE x \in dashes(i) : \A y \in dashes(i) : y <= x
             IN  PyStr(Join(SubSeq(c, i, j + 6)))

\* The pattern of group 1 of "(DM-\w{3}\d{2}-\d{6})" at position i.
StrictAt(c, i) ==
    /\ i + 14 <= Len(c)
    /\ SubSeq(c, i, i + 2) = <<"D", "M", "-">>
    /\ \A k \in (i + 3)..(i + 5) : c[k] \in WordChars
    /\ \A k \in (i + 6)..(i + 7) : c[k] \in Digits
    /\ c[i + 8] = "-"
    /\ \A k \in (i + 9)..(i + 14) : c[k] \in Digits

\* re.search("(DM-\w{3}\d{2}-\d{6})", str): the group matched, or PyNone.
SearchStrict(str) ==
    LET c == Chars(str)
        hits == {i \in 1..Len(c) : StrictAt(c, i)}
    IN  IF hits = {} THEN PyNone
        ELSE LET i == CHOOSE x \in hits : \A y \in hits : x <= y
             IN  PyStr(Join(SubSeq(c, i, i + 14)))

(***************************************************************************)
(* State.                                                                  *)
(***************************************************************************)
VARIABLES
    files,            \* folder -> the DATA.csv in it (os.path.join(folder, CSV_NAME))
    names,            \* the Rhino document: object -> its name (PyNone: unnamed)
    exports,          \* the number of _-Export commands issued to the host
    pc,               \* where RunCommand stands ("idle": not running)
    outcome,          \* how the last run ended: "" (none yet, or running),
                      \* "return", or the exception that left RunCommand
    boxes,            \* titles of the message boxes shown by this run
    printed,          \* errors printed by this run
    save_location,    \* RunCommand's locals
    PROJECT_ID,
    data_dict,
    production_type,
    extension,
    rhino_object,
    dimensions,
    filename,
    material,
    quantity,
    key,              \* setup_project_data: the index of the key asked for
                      \* (0: not in setup_project_data)
    call,             \* the last csv_crud call recorded: its arguments, the
                      \* file before it and what it left behind
    iter              \* files and exports as the current loop iteration found them

vars ==
    << files, names, exports, pc, outcome, boxes, printed, save_location,
       PROJECT_ID, data_dict, production_type, extension, rhino_object,
       dimensions, filename, material, quantity, key, call, iter >>

locals ==
    << save_location, PROJECT_ID, data_dict, production_type, extension,
       rhino_object, dimensions, filename, material, quantity, key >>

\* A csv_crud call: the function, its name and data arguments, the file
\* before it, which of its open() calls the environment refused (0: none)
\* and what the call left behind.
NoCall ==
    [op |-> "", name |-> PyNone, data |-> <<>>, before |-> NoFile,
     failed |-> 0, ret |-> PyNone, raised |-> "", printed |-> "", box |-> ""]

Call(op, name, data, before, failed, r) ==
    [op |-> op, name |-> name, data |-> data, before |-> before,
     failed |-> failed, ret |-> r.ret, raised |-> r.raised,
     printed |-> r.printed, box |-> r.box]

(***************************************************************************)
(* The dev command: "Export to CNC {...}/dev/ExportToCNC_cmd.py".          *)
(***************************************************************************)
\* The objects of the Rhino document.
Objects == {"o1", "o2"}

\* What rs.GetObjects may return: a list of object ids.
Selections == {<<"o1">>, <<"o2">>, <<"o2", "o1">>}

\* What the user may type in the "Assign name to object" box.
TypedNames == {"B"}

\* The answers to "Add input for material": a text, or OK on an empty box.
Materials == {"MDF", ""}

\* The answers to the quantity box (rs.RealBox, 1 to 100).
Quantities == {1, 2}

\* The answers to "Select project type" (a subset of the list's items).
ProductionTypes == {"Pilot"}

extension_dict ==
    [DXF |-> ".dxf", STEP |-> ".step", 3MF |-> ".3mf", STL |-> ".stl"]

\* The items the user picks in "Select export extension".
ExtensionChoices == {"DXF", "STEP"}

\* The edge of each object's bounding box (the objects are cubes at the
\* origin), which rs.BoundingBox and rs.Distance measure.
Edge == [o \in Objects |-> IF o = "o1" THEN 10 ELSE 20]

\* "{:.2f}".format(x) of a whole number
Format2f(k) == IntToStr(k) \o ".00"

get_bb_dimensions(guids) ==
    LET m == CHOOSE x \in {Edge[o] : o \in Range(guids)} :
                 \A o \in Range(guids) : Edge[o] <= x
    IN  PyStr(Format2f(m) \o " * " \o Format2f(m) \o " * " \o Format2f(m))

\* get_savefolder_name of the dev command: what it returns, the exception
\* that leaves it, the message box it shows.
get_savefolder_name(folder) ==
    LET m == SearchLoose(folder)
    IN  IF m = PyNone
        THEN [ret |-> PyNone, raised |-> "AttributeError", box |-> ""]
        ELSE IF ~Truthy(m)
        THEN [ret |-> PyNone, raised |-> "", box |-> "Invalid folder name"]
        ELSE [ret |-> m, raised |-> "", box |-> ""]

\* create_filename of the dev command, from the name the object has after
\* the name prompt: the file name, or the exception that leaves it.
create_filename(project_name, geo_name, ext) ==
    LET match == SearchStrict(project_name.s)
    IN  IF match = PyNone THEN [ret |-> PyNone, raised |-> "AttributeError"]
        ELSE [ret |-> PyStr(Format(match) \o "_" \o Format(geo_name) \o Format(ext)),
              raised |-> ""]

\* create_data_dict: every header a key, every value None.
create_data_dict == [k \in Range(csv_headers) |-> PyNone]

\* The keys of project_columns with their default values, in the order
\* setup_project_data asks for them.
project_columns ==
    << <<"Flex Customer", "Flex">>, <<"Site", "Guad North">>,
       <<"Building", "B18">>, <<"ID ATC", "DM-GDN03-220001">>,
       <<"Model or customer ID", "">>, <<"Product", "Product name">>,
       <<"Requester", "Requester name">>, <<"Designer", "Elias Rayas">>,
       <<"File Path", "Paste Box drive link here">> >>

\* The state in which no command runs.
NoLocals ==
    /\ save_location' = PyNone
    /\ PROJECT_ID' = PyNone
    /\ data_dict' = <<>>
    /\ production_type' = PyNone
    /\ extension' = PyNone
    /\ rhino_object' = <<>>
    /\ dimensions' = PyNone
    /\ filename' = PyNone
    /\ material' = PyNone
    /\ quantity' = PyNone
    /\ key' = 0

\* RunCommand ends: by a return, or by the exception that leaves it.
End(how) == pc' = "idle" /\ outcome' = how /\ NoLocals

\* The DATA.csv of the folder chosen.
Csv == files[save_location.s]

\* What a loop iteration finds when it starts, and the prompt of this
\* iteration at which the user has pressed cancel ("" : none yet).
Iter(fs, n, cancelled) == [files |-> fs, exports |-> n, cancelled |-> cancelled]

Cancel(prompt) == iter' = [iter EXCEPT !.cancelled = prompt]

DevInit ==
    /\ files = [fd \in Folders |-> NoFile]
    /\ names = [o \in Objects |-> IF o = "o1" THEN PyStr("A") ELSE PyNone]
    /\ exports = 0
    /\ pc = "idle"
    /\ outcome = ""
    /\ boxes = {}
    /\ printed = {}
    /\ save_location = PyNone
    /\ PROJECT_ID = PyNone
    /\ data_dict = <<>>
    /\ production_type = PyNone
    /\ extension = PyNone
    /\ rhino_object = <<>>
    /\ dimensions = PyNone
    /\ filename = PyNone
    /\ material = PyNone
    /\ quantity = PyNone
    /\ key = 0
    /\ call = NoCall
    /\ iter = Iter(files, 0, "")

\* Lines 189-198: the command starts and asks for the folder.
DevBrowseForFolder ==
    /\ pc = "idle"
    /\ boxes' = {}
    /\ printed' = {}
    /\ call' = NoCall
    /\ iter' = Iter(files, exports, "")
    /\ \E folder \in {PyStr(fd) : fd \in Folders} \cup {PyNone} :
          IF ~Truthy(folder) THEN End("return")
          ELSE /\ save_location' = folder
               /\ pc' = "project_id"
               /\ outcome' = ""
               /\ UNCHANGED << PROJECT_ID, data_dict, production_type,
                               extension, rhino_object, dimensions, filename,
                               material, quantity, key >>
    /\ UNCHANGED << files, names, exports >>

\* Lines 200-205: PROJECT_ID = get_savefolder_name(save_location).
DevProjectId ==
    /\ pc = "project_id"
    /\ LET r == get_savefolder_name(save_location.s)
       IN  /\ boxes' = IF r.box = "" THEN boxes ELSE boxes \cup {r.box}
           /\ IF r.raised # "" THEN End(r.raised)
              ELSE IF ~Truthy(r.ret) THEN End("return")
              ELSE /\ PROJECT_ID' = r.ret
                   /\ pc' = "create_csv"
                   /\ UNCHANGED << outcome, save_location, data_dict,
                                   production_type, extension, rhino_object,
                                   dimensions, filename, material, quantity,
                                   key >>
    /\ UNCHANGED << files, names, exports, printed, call, iter >>

\* Lines 207-219: create DATA.csv in the folder unless it is there.
DevCreateCsv ==
    /\ pc = "create_csv"
    /\ \E fail \in 0..1 :
          LET r == IF ~Csv.exists THEN create_new_csv(Csv, fail)
                   ELSE Result(Csv, PyNone, "", "", "")
          IN  /\ files' = [files EXCEPT ![save_location.s] = r.file]
              /\ printed' = IF r.printed = "" THEN printed
                            ELSE printed \cup {r.printed}
    /\ pc' = "project_data"
    /\ UNCHANGED << names, exports, outcome, boxes, locals, call, iter >>

\* Lines 221-234: read the project data from the first row when the file
\* holds rows, else start asking for them (setup_project_data).
DevProjectData ==
    /\ pc = "project_data"
    /\ \E fail1 \in 0..1, fail2 \in 0..1 :
          LET r == get_row_index(Csv, PyNone, fail1)
          IN  IF r.raised # "" THEN End(r.raised) /\ UNCHANGED printed
              ELSE IF r.ret.n >= 1
              THEN IF OpenReadFails(Csv, fail2 = 1)
                   THEN /\ End("IOError")
                        /\ printed' = printed \cup {"read_project_data"}
                   ELSE /\ data_dict' = FirstRow(Csv)
                        /\ pc' = "production_type"
                        /\ UNCHANGED << printed, outcome, save_location,
                                        PROJECT_ID, production_type,
                                        extension, rhino_object, dimensions,
                                        filename, material, quantity, key >>
              ELSE /\ data_dict' = create_data_dict
                   /\ pc' = "setup"
                   /\ key' = 1
                   /\ UNCHANGED << printed, outcome, save_location,
                                   PROJECT_ID, production_type, extension,
                                   rhino_object, dimensions, filename,
                                   material, quantity >>
    /\ UNCHANGED << files, names, exports, boxes, call, iter >>

\* setup_project_data, lines 172-197: one key of project_columns is asked
\* for; the user accepts the default or cancels, and a cancel raises
\* ValueError, which leaves RunCommand.
DevSetupProjectData ==
    /\ pc = "setup"
    /\ \E data \in {PyStr(project_columns[key][2]), PyNone} :
          IF data = PyNone \/ data = PyStr("None") THEN End("ValueError")
          ELSE /\ data_dict' = [data_dict EXCEPT ![project_columns[key][1]] = data]
               /\ IF key = Len(project_columns)
                  THEN pc' = "production_type" /\ key' = 0
                  ELSE pc' = "setup" /\ key' = key + 1
               /\ UNCHANGED << outcome, save_location, PROJECT_ID,
                               production_type, extension, rhino_object,
                               dimensions, filename, material, quantity >>
    /\ UNCHANGED << files, names, exports, boxes, printed, call, iter >>

\* Lines 247-255: the production type.
DevProductionType ==
    /\ pc = "production_type"
    /\ \E answer \in {PyStr(x) : x \in ProductionTypes} \cup {PyNone} :
          IF ~Truthy(answer) THEN End("return")
          ELSE /\ production_type' = answer
               /\ pc' = "extension"
               /\ UNCHANGED << outcome, save_location, PROJECT_ID, data_dict,
                               extension, rhino_object, dimensions, filename,
                               material, quantity, key >>
    /\ UNCHANGED << files, names, exports, boxes, printed, call, iter >>

\* get_export_extension, lines 59-89: the extension of the item picked.
get_export_extension(item) ==
    IF ~Truthy(item) THEN PyNone ELSE PyStr(extension_dict[item.s])

\* Lines 257-260: the extension; the loop starts.
DevExtension ==
    /\ pc = "extension"
    /\ \E item \in {PyStr(x) : x \in ExtensionChoices} \cup {PyNone} :
          IF ~Truthy(get_export_extension(item)) THEN End("return")
          ELSE /\ extension' = get_export_extension(item)
               /\ pc' = "select"
               /\ UNCHANGED << outcome, save_location, PROJECT_ID, data_dict,
                               production_type, rhino_object, dimensions,
                               filename, material, quantity, key >>
    /\ iter' = Iter(files, exports, "")
    /\ UNCHANGED << files, names, exports, boxes, printed, call >>

\* Lines 266-292: an iteration starts: the objects to export and their
\* bounding box.  (The model stops selecting after MaxExports exports.)
DevSelectObject ==
    /\ pc = "select"
    /\ \E sel \in Selections \cup {<<>>} :
          IF sel = <<>> THEN End("return") /\ Cancel("select")
          ELSE /\ exports < MaxExports
               /\ rhino_object' = sel
               /\ dimensions' = get_bb_dimensions(sel)
               /\ pc' = "filename"
               /\ UNCHANGED << outcome, save_location, PROJECT_ID, data_dict,
                               production_type, extension, filename, material,
                               quantity, key, iter >>
    /\ UNCHANGED << files, names, exports, boxes, printed, call >>

\* Line 295 and create_filename, lines 92-126: the name of the first object,
\* asked for when it has none and given to every selected object; then the
\* file name.
DevCreateFilename ==
    /\ pc = "filename"
    /\ \E typed \in {PyStr(x) : x \in TypedNames} \cup {PyNone} :
          LET asked == names[rhino_object[1]] = PyNone
              geo_name == IF asked THEN typed ELSE names[rhino_object[1]]
              r == create_filename(PROJECT_ID, geo_name, extension)
          IN  /\ names' = IF asked /\ geo_name # PyNone
                          THEN [o \in Objects |->
                                   IF o \in Range(rhino_object) THEN geo_name
                                   ELSE names[o]]
                          ELSE names
              /\ IF asked /\ typed = PyNone THEN Cancel("name")
                 ELSE UNCHANGED iter
              /\ IF r.raised # "" THEN End(r.raised)
                 ELSE /\ filename' = r.ret
                      /\ pc' = "material"
                      /\ UNCHANGED << outcome, save_location, PROJECT_ID,
                                      data_dict, production_type, extension,
                                      rhino_object, dimensions, material,
                                      quantity, key >>
    /\ UNCHANGED << files, exports, boxes, printed, call >>

\* Lines 297-305: the material.
DevMaterial ==
    /\ pc = "material"
    /\ \E answer \in {PyStr(x) : x \in Materials} \cup {PyNone} :
          /\ IF answer = PyNone THEN Cancel("material") ELSE UNCHANGED iter
          /\ IF ~Truthy(answer) THEN End("return")
             ELSE /\ material' = answer
                  /\ pc' = "quantity"
                  /\ UNCHANGED << outcome, save_location, PROJECT_ID,
                                  data_dict, production_type, extension,
                                  rhino_object, dimensions, filename,
                                  quantity, key >>
    /\ UNCHANGED << files, names, exports, boxes, printed, call >>

\* Lines 307-337: the quantity; the part's data go into data_dict.
DevQuantity ==
    /\ pc = "quantity"
    /\ \E answer \in {PyFloat(x) : x \in Quantities} \cup {PyNone} :
          /\ IF answer = PyNone THEN Cancel("quantity") ELSE UNCHANGED iter
          /\ IF ~Truthy(answer) THEN End("return")
             ELSE /\ quantity' = answer
                  /\ data_dict' =
                        DictUpdate(data_dict,
                                   [k \in {"Sizes", "File name", "Material",
                                           "Quantity", "Type"} |->
                                       CASE k = "Sizes" -> dimensions
                                         [] k = "File name" -> filename
                                         [] k = "Material" -> material
                                         [] k = "Quantity" -> answer
                                         [] OTHER -> production_type])
                  /\ pc' = "write"
                  /\ UNCHANGED << outcome, save_location, PROJECT_ID,
                                  production_type, extension, rhino_object,
                                  dimensions, filename, material, key >>
    /\ UNCHANGED << files, names, exports, boxes, printed, call >>

\* The decision without the look-up: every record is added.
WriteRecordAlwaysAdds(f, name, d, row_index, fail) ==
    [op |-> "add_data_row", data |-> d, r |-> add_data_row(f, d, fail)]

\* Lines 343-357 as one decision: the result of get_row_index, then
\* update_data_row when it is -1, else "Row" set and add_data_row.
WriteRecord(f, name, d, row_index, fail) ==
    IF row_index = PyInt(-1)
    THEN [op |-> "update_data_row", data |-> d,
          r |-> update_data_row(f, name, d, fail)]
    ELSE LET d2 == DictUpdate(d, [k \in {"Row"} |-> row_index])
         IN  [op |-> "add_data_row", data |-> d2,
              r |-> add_data_row(f, d2, fail)]

\* Lines 339-357: the record of the part is updated or added.
DevWriteCsv ==
    /\ pc = "write"
    /\ \E fail1 \in 0..1, fail2 \in 0..2 :
          LET g == get_row_index(Csv, filename, fail1)
              w == WriteRecord(Csv, filename, data_dict, g.ret, fail2)
          IN  IF g.raised # ""
              THEN /\ End(g.raised)
                   /\ call' = Call("get_row_index", filename, <<>>, Csv, fail1, g)
                   /\ UNCHANGED << files, printed, boxes >>
              ELSE /\ (w.op = "add_data_row") => fail2 <= 1
                   /\ files' = [files EXCEPT ![save_location.s] = w.r.file]
                   /\ call' = Call(w.op, filename, w.data, Csv, fail2, w.r)
                   /\ printed' = IF w.r.printed = "" THEN printed
                                 ELSE printed \cup {w.r.printed}
                   /\ boxes' = IF w.r.box = "" THEN boxes
                               ELSE boxes \cup {w.r.box}
                   /\ IF w.r.raised # "" THEN End(w.r.raised)
                      ELSE /\ data_dict' = w.data
                           /\ pc' = "export"
                           /\ UNCHANGED << outcome, save_location, PROJECT_ID,
                                           production_type, extension,
                                           rhino_object, dimensions, filename,
                                           material, quantity, key >>
    /\ UNCHANGED << names, exports, iter >>

\* Lines 359-364 and export_to_file, lines 129-154: the export command; the
\* next iteration starts.
DevExport ==
    /\ pc = "export"
    /\ exports' = exports + 1
    /\ pc' = "select"
    /\ iter' = Iter(files, exports + 1, "")
    /\ UNCHANGED << files, names, outcome, boxes, printed, locals, call >>

Next ==
    \/ DevBrowseForFolder
    \/ DevProjectId
    \/ DevCreateCsv
    \/ DevProjectData
    \/ DevSetupProjectData
    \/ DevProductionType
    \/ DevExtension
    \/ DevSelectObject
    \/ DevCreateFilename
    \/ DevMaterial
    \/ DevQuantity
    \/ DevWriteCsv
    \/ DevExport

\* The positions of RunCommand inside its "while True" loop, lines 266-364.
LoopPcs == {"select", "filename", "material", "quantity", "write", "export"}

Spec == DevInit /\ [][Next]_vars

(***************************************************************************)
(* The older, top-level command: ExportToCNC_cmd.py with csv_crud.py.      *)
(***************************************************************************)
\* get_savefolder_name of the top-level command: 1 and a message box when
\* the path does not hold the schema.
top_get_savefolder_name(folder) ==
    LET m == SearchLoose(folder)
    IN  IF ~Truthy(m) THEN [ret |-> PyInt(1), box |-> "Invalid folder name"]
        ELSE [ret |-> m, box |-> ""]

\* create_filename of the top-level command.
top_create_filename(project_name, geo_name) ==
    PyStr(Format(project_name) \o "_" \o Format(geo_name) \o ".stp")

top_create_data_dict == [k \in Range(top_csv_headers) |-> PyNone]

top_project_columns ==
    << <<"Flex Customer", "Flex">>, <<"Site", "Guad North">>,
       <<"Building", "B1">>, <<"ID", "DM-GDN00-000000">>,
       <<"Product", "Pallet">>, <<"Requester", "Requester name">>,
       <<"Designer", "USERNAME">>,
       <<"File Path", "Paste Box drive link here">> >>

\* The answers to "Add input for material" of the top-level command.
TopMaterials == {"SolidPro"}

\* The answers to the quantity box of the top-level command.
TopQuantities == {1}

\* The prompts of setup_project_data at which the user of the top-level
\* command may press cancel (by their index in top_project_columns).
TopCancelKeys == {1, 5}

\* The folders picked for the top-level command, which has one pattern.
TopFolders == {ProjectFolder, PlainFolder}

\* Lines 90-98: the command starts and asks for the folder.
TopBrowseForFolder ==
    /\ pc = "idle"
    /\ boxes' = {}
    /\ printed' = {}
    /\ call' = NoCall
    /\ iter' = Iter(files, exports, "")
    /\ \E folder \in {PyStr(fd) : fd \in TopFolders} \cup {PyNone} :
          IF ~Truthy(folder) THEN End("return")
          ELSE /\ save_location' = folder
               /\ pc' = "project_id"
               /\ outcome' = ""
               /\ UNCHANGED << PROJECT_ID, data_dict, production_type,
                               extension, rhino_object, dimensions, filename,
                               material, quantity, key >>
    /\ UNCHANGED << files, names, exports >>

\* Lines 100-102: PROJECT_ID = get_savefolder_name(save_location); what it
\* returns is not looked at.
TopProjectId ==
    /\ pc = "project_id"
    /\ LET r == top_get_savefolder_name(save_location.s)
       IN  /\ boxes' = IF r.box = "" THEN boxes ELSE boxes \cup {r.box}
           /\ PROJECT_ID' = r.ret
    /\ pc' = "create_csv"
    /\ UNCHANGED << files, names, exports, outcome, printed, save_location,
                    data_dict, production_type, extension, rhino_object,
                    dimensions, filename, material, quantity, key, call, iter >>

\* Lines 104-110: create DATA.csv in the folder unless it is there.
TopCreateCsv ==
    /\ pc = "create_csv"
    /\ \E fail \in 0..1 :
          LET r == IF ~Csv.exists THEN top_create_new_csv(Csv, fail)
                   ELSE Result(Csv, PyNone, "", "", "")
          IN  /\ files' = [files EXCEPT ![save_location.s] = r.file]
              /\ printed' = IF r.printed = "" THEN printed
                            ELSE printed \cup {r.printed}
    /\ pc' = "project_data"
    /\ UNCHANGED << names, exports, outcome, boxes, locals, call, iter >>

\* Lines 112-122: the project data are read from the first row when the
\* file holds more than one row, else asked for.  read_project_data
\* prints an IOError and returns None, which is then data_dict.
TopProjectData ==
    /\ pc = "project_data"
    /\ \E fail1 \in 0..1, fail2 \in 0..1 :
          LET r == get_row_index(Csv, PyNone, fail1)
          IN  IF r.raised # "" THEN End(r.raised) /\ UNCHANGED printed
              ELSE IF r.ret.n > 1
              THEN /\ IF OpenReadFails(Csv, fail2 = 1)
                      THEN /\ data_dict' = PyNone
                           /\ printed' = printed \cup {"read_project_data"}
                      ELSE /\ data_dict' = FirstRow(Csv)
                           /\ UNCHANGED printed
                   /\ pc' = "select"
                   /\ UNCHANGED << outcome, save_location, PROJECT_ID,
                                   production_type, extension, rhino_object,
                                   dimensions, filename, material, quantity,
                                   key >>
              ELSE /\ data_dict' = top_create_data_dict
                   /\ pc' = "setup"
                   /\ key' = 1
                   /\ UNCHANGED << printed, outcome, save_location,
                                   PROJECT_ID, production_type, extension,
                                   rhino_object, dimensions, filename,
                                   material, quantity >>
    /\ UNCHANGED << files, names, exports, boxes, call, iter >>

\* setup_project_data of the top-level csv_crud, lines 133-151: one key is
\* asked for; on a cancel (or an empty answer) the function returns and
\* the command goes on with the data it has.
TopSetupProjectData ==
    /\ pc = "setup"
    /\ \E data \in {PyStr(top_project_columns[key][2])} \cup
                    (IF key \in TopCancelKeys THEN {PyNone} ELSE {}) :
          IF ~Truthy(data)
          THEN /\ pc' = "select"
               /\ key' = 0
               /\ Cancel("setup")
               /\ UNCHANGED data_dict
          ELSE /\ data_dict' =
                     [data_dict EXCEPT ![top_project_columns[key][1]] = data]
               /\ IF key = Len(top_project_columns)
                  THEN pc' = "select" /\ key' = 0
                  ELSE pc' = "setup" /\ key' = key + 1
               /\ UNCHANGED iter
    /\ UNCHANGED << files, names, exports, outcome, boxes, printed,
                    save_location, PROJECT_ID, production_type, extension,
                    rhino_object, dimensions, filename, material, quantity,
                    call >>

\* Lines 126-151: an iteration starts: the objects to export, their
\* bounding box, the number of rows of the file as "Row", the file name.
\* (The model stops selecting after MaxExports exports.)
TopSelectObject ==
    /\ pc = "select"
    /\ \E sel \in Selections \cup {<<>>}, fail \in 0..1 :
          LET g == get_row_index(Csv, PyNone, fail)
              name == top_create_filename(PROJECT_ID, names[sel[1]])
          IN  IF sel = <<>> THEN End("return")
              ELSE /\ exports < MaxExports
                   /\ IF g.raised # "" THEN End(g.raised)
                      ELSE IF data_dict = PyNone THEN End("TypeError")
                      ELSE /\ rhino_object' = sel
                           /\ dimensions' = get_bb_dimensions(sel)
                           /\ filename' = name
                           /\ data_dict' =
                                 DictUpdate(data_dict,
                                     [k \in {"Row", "Sizes", "File name"} |->
                                        CASE k = "Row" -> g.ret
                                          [] k = "Sizes" -> get_bb_dimensions(sel)
                                          [] OTHER -> name])
                           /\ pc' = "material"
                           /\ UNCHANGED << outcome, save_location, PROJECT_ID,
                                           production_type, extension,
                                           material, quantity, key >>
    /\ UNCHANGED << files, names, exports, boxes, printed, call, iter >>

\* Lines 153-158: the material; a cancel is stored as None.
TopMaterial ==
    /\ pc = "material"
    /\ \E answer \in {PyStr(x) : x \in TopMaterials} \cup {PyNone} :
          /\ material' = answer
          /\ data_dict' = DictUpdate(data_dict, [k \in {"Material"} |-> answer])
    /\ pc' = "quantity"
    /\ UNCHANGED << files, names, exports, outcome, boxes, printed,
                    save_location, PROJECT_ID, production_type, extension,
                    rhino_object, dimensions, filename, quantity, key, call,
                    iter >>

\* Lines 160-167: the quantity; a cancel is stored as None.
TopQuantity ==
    /\ pc = "quantity"
    /\ \E answer \in {PyFloat(x) : x \in TopQuantities} \cup {PyNone} :
          /\ quantity' = answer
          /\ data_dict' = DictUpdate(data_dict, [k \in {"Quantity"} |-> answer])
    /\ pc' = "write"
    /\ UNCHANGED << files, names, exports, outcome, boxes, printed,
                    save_location, PROJECT_ID, production_type, extension,
                    rhino_object, dimensions, filename, material, key, call,
                    iter >>

\* Lines 169-170: the row is added.
TopWriteCsv ==
    /\ pc = "write"
    /\ \E fail \in 0..1 :
          LET r == top_add_data_row(Csv, data_dict, fail)
          IN  /\ files' = [files EXCEPT ![save_location.s] = r.file]
              /\ call' = Call("add_data_row", filename, data_dict, Csv, fail, r)
              /\ printed' = IF r.printed = "" THEN printed
                            ELSE printed \cup {r.printed}
              /\ boxes' = IF r.box = "" THEN boxes ELSE boxes \cup {r.box}
              /\ IF r.raised # "" THEN End(r.raised)
                 ELSE pc' = "export" /\ UNCHANGED << outcome, locals >>
    /\ UNCHANGED << names, exports, iter >>

\* Lines 172-173 and export_to_cnc, lines 58-83: the export command.
TopExport ==
    /\ pc = "export"
    /\ exports' = exports + 1
    /\ pc' = "continue"
    /\ UNCHANGED << files, names, outcome, boxes, printed, locals, call, iter >>

\* Lines 175-185: "Continue exporting models?": Yes (6) or No (7).
TopContinue ==
    /\ pc = "continue"
    /\ \E repeat_again \in {6, 7} :
          IF repeat_again = 7 THEN End("return") /\ UNCHANGED iter
          ELSE /\ pc' = "select"
               /\ iter' = Iter(files, exports, "")
               /\ UNCHANGED << outcome, locals >>
    /\ UNCHANGED << files, names, exports, boxes, printed, call >>

TopNext ==
    \/ TopBrowseForFolder
    \/ TopProjectId
    \/ TopCreateCsv
    \/ TopProjectData
    \/ TopSetupProjectData
    \/ TopSelectObject
    \/ TopMaterial
    \/ TopQuantity
    \/ TopWriteCsv
    \/ TopExport
    \/ TopContinue

\* The positions of RunCommand inside its "while repeat_command" loop,
\* lines 126-182.
TopLoopPcs == {"select", "material", "quantity", "write", "export", "continue"}

SpecTop == DevInit /\ [][TopNext]_vars

(***************************************************************************)
(* The csv_crud functions on their own: any caller, any order, on a        *)
(* DATA.csv that is missing, empty, freshly created, or left by the older  *)
(* version of the module (its header differs).                             *)
(***************************************************************************)
CrudNames == {"P_A.dxf", "P_B.dxf"}

CrudQuantities == {1, 2}

\* A data dictionary as the dev command fills it: every header a key.
CrudDict(name, qty) ==
    [k \in Range(csv_headers) |->
        CASE k = "File name" -> PyStr(name)
          [] k = "Material" -> PyStr("MDF")
          [] k = "Quantity" -> PyFloat(qty)
          [] k = "Row" -> PyInt(0)
          [] OTHER -> PyNone]

CrudDicts == {CrudDict(nm, q) : nm \in CrudNames, q \in CrudQuantities}

\* A row as the older version of the module wrote it.
LegacyRow ==
    DictWriterRow(top_csv_headers,
                  [k \in Range(top_csv_headers) |->
                      IF k = "File name" THEN PyStr("P_A.dxf") ELSE PyNone])

CrudFiles ==
    { NoFile, File(<<>>), File(<<csv_headers>>), File(<<top_csv_headers>>),
      File(<<top_csv_headers, LegacyRow>>) }

\* The names a caller looks for: a file name, or None (the default).
CrudLookups == {PyStr(nm) : nm \in CrudNames} \cup {PyNone}

CrudFile == files[ProjectFolder]

CrudInit ==
    /\ \E f \in CrudFiles :
          files = [fd \in Folders |-> IF fd = ProjectFolder THEN f ELSE NoFile]
    /\ names = <<>>
    /\ exports = 0
    /\ pc = "idle"
    /\ outcome = ""
    /\ boxes = {}
    /\ printed = {}
    /\ save_location = PyNone
    /\ PROJECT_ID = PyNone
    /\ data_dict = <<>>
    /\ production_type = PyNone
    /\ extension = PyNone
    /\ rhino_object = <<>>
    /\ dimensions = PyNone
    /\ filename = PyNone
    /\ material = PyNone
    /\ quantity = PyNone
    /\ key = 0
    /\ call = NoCall
    /\ iter = Iter(files, 0, "")

CrudApply(op, name, data, fail, r) ==
    /\ files' = [files EXCEPT ![ProjectFolder] = r.file]
    /\ call' = Call(op, name, data, CrudFile, fail, r)
    /\ UNCHANGED << names, exports, pc, outcome, boxes, printed, locals, iter >>

CrudCreate ==
    \E fail \in 0..1 :
        CrudApply("create_new_csv", PyNone, <<>>, fail,
                  create_new_csv(CrudFile, fail))

CrudGetRowIndex ==
    \E name \in CrudLookups, fail \in 0..1 :
        CrudApply("get_row_index", name, <<>>, fail,
                  get_row_index(CrudFile, name, fail))

CrudAdd ==
    \E d \in CrudDicts, fail \in 0..1 :
        /\ Len(DataRows(CrudFile)) < MaxRows
        /\ CrudApply("add_data_row", PyNone, d, fail,
                     add_data_row(CrudFile, d, fail))

CrudUpdate ==
    \E name \in CrudLookups, d \in CrudDicts, fail \in 0..2 :
        CrudApply("update_data_row", name, d, fail,
                  update_data_row(CrudFile, name, d, fail))

CrudNext == CrudCreate \/ CrudGetRowIndex \/ CrudAdd \/ CrudUpdate

SpecCrud == CrudInit /\ [][CrudNext]_vars

\* The call recorded returned without raising or printing an error.
Returned == call.raised = "" /\ call.printed = ""

\* The value DictReader gives a line of a file under "File name".
FileNameOf(f, line) == DictReaderRow(Header(f), line)["File name"]

\* The positions of the data rows of f whose "File name" equals name.
Matching(f, name) ==
    {i \in 1..Len(DataRows(f)) : FileNameOf(f, DataRows(f)[i]) = name}

(***************************************************************************)
(* C1: get_row_index(filepath, name) returns -1 if and only if at least    *)
(* one data row has a "File name" equal to name, and the number of data    *)
(* rows otherwise (0 for a file that holds its header only); the file is   *)
(* left as it was.  (A call that returns: the file can be opened and, when *)
(* it holds rows, has a "File name" column.)                               *)
(***************************************************************************)
C1_GetRowIndex ==
    (call.op = "get_row_index" /\ Returned) =>
        /\ (call.ret = PyInt(-1)) <=> (Matching(call.before, call.name) # {})
        /\ (call.ret # PyInt(-1)) =>
               call.ret = PyInt(Len(DataRows(call.before)))
        /\ CrudFile = call.before

\* A name is found in the second of two rows, behind a row with another
\* name.
C1_Witness ==
    /\ call.op = "get_row_index" /\ Returned
    /\ Len(DataRows(call.before)) = 2
    /\ Matching(call.before, call.name) = {2}
    /\ call.ret = PyInt(-1)

\* The cell of a line of f under column k.
Cell(f, line, k) == line[IndexOf(Header(f), k)]

\* A data row of the file after update_data_row holds new_data: under every
\* column that is a key of new_data, the text csv.writer gives its value.
HoldsNewData(f, line, new_data) ==
    \A k \in Range(Header(f)) \cap DOMAIN new_data :
        Cell(f, line, k) = CsvField(new_data[k])

\* update_data_row rewrote the file: it opened it twice and no exception
\* left the rewrite loop.
Rewrote == call.op = "update_data_row" /\ Returned

SameShape ==
    /\ Header(CrudFile) = Header(call.before)
    /\ Len(DataRows(CrudFile)) = Len(DataRows(call.before))

C4_CreateNewCsv ==
    (call.op = "create_new_csv") =>
        /\ call.before.exists => CrudFile = call.before
        /\ (~call.before.exists /\ CrudFile.exists) =>
              /\ CrudFile.lines = <<csv_headers>>
              /\ \A name \in CrudLookups :
                    get_row_index(CrudFile, name, 0).ret = PyInt(0)

\* create_new_csv was called on a file that held two data rows.
C4_Witness ==
    /\ call.op = "create_new_csv"
    /\ Len(DataRows(call.before)) = 2
    /\ CrudFile = call.before

\* create_new_csv created the file.
C4_WitnessCreated ==
    /\ call.op = "create_new_csv"
    /\ ~call.before.exists
    /\ CrudFile.lines = <<csv_headers>>

(***************************************************************************)
(* The dev command's loop.                                                 *)
(***************************************************************************)
\* The iteration has written its record: update_data_row or add_data_row
\* has returned, with no open() refused, and the export is next.
Wrote == pc = "export" /\ call.failed = 0

C2_WitnessAdd ==
    /\ Wrote
    /\ call.op = "add_data_row"
    /\ Len(DataRows(call.before)) = 1

\* No two data rows of the file hold the same "File name".
NoDuplicate(f) ==
    \A i, j \in 1..Len(DataRows(f)) :
        FileNameOf(f, DataRows(f)[i]) = FileNameOf(f, DataRows(f)[j]) => i = j

(***************************************************************************)
(* C5: starting from a DATA.csv created by create_new_csv, after any       *)
(* sequence of dev sessions and loop iterations, no two data rows of       *)
(* DATA.csv have the same "File name".                                     *)
(***************************************************************************)
C5_NoDuplicateFileName == \A fd \in Folders : NoDuplicate(files[fd])

\* Two exports of one part, in two sessions, left one row.
C5_Witness ==
    /\ exports = 2
    /\ Len(DataRows(files[ProjectFolder])) = 1
    /\ pc = "idle"
    /\ call.op = "update_data_row" /\ call.failed = 0

(***************************************************************************)
(* C7, as the claim states it: every I/O error raised while get_row_index, *)
(* add_data_row or update_data_row opens DATA.csv is caught inside that    *)
(* function and printed; none propagates to the calling command.           *)
(***************************************************************************)
C7_NoIOErrorPropagates ==
    (call.op \in {"get_row_index", "add_data_row", "update_data_row"}) =>
        /\ call.raised # "IOError"
        /\ outcome # "IOError"

(***************************************************************************)
(* C7, amended: every I/O error raised while add_data_row or               *)
(* update_data_row opens DATA.csv is caught inside that function and       *)
(* printed, the file is left as it was and the command goes on to the      *)
(* export; an I/O error raised while get_row_index opens DATA.csv is not   *)
(* caught: it leaves get_row_index and ends the calling command.           *)
(***************************************************************************)
C7_IOErrorCaughtWhenWriting ==
    /\ (call.op \in {"add_data_row", "update_data_row"} /\ call.failed # 0) =>
          /\ call.raised = ""
          /\ call.printed = call.op
          /\ call.printed \in printed
          /\ outcome # "IOError"
          /\ pc = "export" => Csv = call.before
    /\ (call.op = "get_row_index" /\ call.failed # 0) =>
          /\ call.raised = "IOError"
          /\ call.printed = ""
          /\ pc = "idle" /\ outcome = "IOError"

\* update_data_row could read the file but not open it for writing; the
\* command goes on to export the part.
C7_Witness ==
    /\ call.op = "update_data_row"
    /\ call.failed = 2
    /\ pc = "export"

\* get_row_index could not open the file in the loop.
C7_WitnessPropagates ==
    /\ call.op = "get_row_index"
    /\ call.failed = 1
    /\ outcome = "IOError"

(***************************************************************************)
(* C6: in the top-level command, exporting a part whose file name already  *)
(* has a row in DATA.csv updates that row in place; no second row with     *)
(* that "File name" is appended.  (Stated for a folder whose path holds    *)
(* the project schema, and for an iteration in which no open() is refused.)*)
(***************************************************************************)
C6_ExistingPartUpdated ==
    (/\ Wrote
     /\ SearchLoose(save_location.s) # PyNone
     /\ Matching(call.before, filename) # {}) =>
        /\ call.op = "update_data_row"
        /\ Len(DataRows(Csv)) = Len(DataRows(call.before))
        /\ NoDuplicate(Csv)

(***************************************************************************)
(* C8: in the dev command, when the folder path does not hold the project  *)
(* schema, get_savefolder_name shows the "Invalid folder name" box and     *)
(* returns None, and RunCommand returns without creating DATA.csv, writing *)
(* a row or exporting.                                                     *)
(***************************************************************************)
C8_InvalidFolderBoxAndReturn ==
    [][(pc = "project_id" /\ SearchLoose(save_location.s) = PyNone) =>
          /\ "Invalid folder name" \in boxes'
          /\ pc' = "idle" /\ outcome' = "return"
          /\ files' = files
          /\ exports' = exports]_vars

(***************************************************************************)
(* C9: in the top-level command, when get_savefolder_name finds no schema  *)
(* in the folder path (and returns 1), the command creates no DATA.csv,    *)
(* writes no row and issues no export: no row's "File name" is built from  *)
(* an invalid project name.                                                *)
(***************************************************************************)
C9_InvalidFolderLeftAlone ==
    /\ \A fd \in Folders : SearchLoose(fd) = PyNone => ~files[fd].exists
    /\ (pc = "continue") => SearchLoose(save_location.s) # PyNone

(***************************************************************************)
(* C10: in the dev loop, a cancel at any prompt of an iteration (object    *)
(* selection, the name of an unnamed object, material, quantity) ends the  *)
(* command, and that iteration neither changes DATA.csv nor issues an      *)
(* export command.                                                         *)
(***************************************************************************)
C10_CancelEndsIteration ==
    (iter.cancelled # "") =>
        /\ pc = "idle" /\ outcome = "return"
        /\ files = iter.files
        /\ exports = iter.exports

\* A state the dev command reaches: the name prompt was cancelled and the
\* iteration has written a row for the part "None" and is about to export.
C10_RowWrittenAfterCancel ==
    /\ iter.cancelled = "name"
    /\ pc = "export"
    /\ files # iter.files

(***************************************************************************)
(* C11: when the user cancels one of the project-data prompts of           *)
(* setup_project_data, the whole sequence is cancelled: in that run of the *)
(* command no data row is written to DATA.csv and nothing is exported.     *)
(* Checked on the top-level command, from the cancel to the end of the     *)
(* loop iteration that follows it.                                         *)
(***************************************************************************)
C11_SetupCancelWritesNothing ==
    (iter.cancelled = "setup") =>
        /\ \A fd \in Folders :
              DataRows(files[fd]) = DataRows(iter.files[fd])
        /\ exports = iter.exports

\* The same on the dev command, where the cancel raises ValueError: the
\* step that leaves setup_project_data by a cancel ends RunCommand with
\* no file changed and no export.
C11_DevSetupCancelEndsRun ==
    [][(pc = "setup" /\ pc' \notin {"setup", "production_type"}) =>
          /\ pc' = "idle" /\ outcome' = "ValueError"
          /\ files' = files
          /\ exports' = exports]_vars

\* A state the top-level command reaches: a project-data prompt was
\* cancelled and the command has exported a part whose row it wrote.
C11_ExportedAfterSetupCancel ==
    /\ iter.cancelled = "setup"
    /\ pc = "continue"
    /\ exports > iter.exports
    /\ Len(DataRows(Csv)) > Len(DataRows(iter.files[save_location.s]))

(***************************************************************************)
(* C12: the command is one prompt loop that the user ends.  The dev loop   *)
(* is left only when the user cancels a prompt of the iteration, and then  *)
(* the command returns.  (A step that ends the command by an IOError of a  *)
(* refused open() is set aside.)                                           *)
(***************************************************************************)
C12_DevLoopLeftOnlyByCancel ==
    [][(pc \in LoopPcs /\ pc' = "idle" /\ outcome' # "IOError") =>
          /\ outcome' = "return"
          /\ iter'.cancelled # ""]_vars

\* The top-level loop is left only at object selection (a cancel) or at
\* "Continue exporting models?" (No), and then the command returns.  (A
\* step that ends the command by an IOError of a refused open(), or by the
\* TypeError that follows a refused open() in read_project_data, is set
\* aside.)
C12_TopLoopLeftOnlyByCancelOrNo ==
    [][(pc \in TopLoopPcs /\ pc' = "idle"
           /\ outcome' \notin {"IOError", "TypeError"}) =>
          /\ outcome' = "return"
          /\ pc \in {"select", "continue"}]_vars

\* With valid input the dev iteration goes from the CSV write to the
\* export and from the export to the next object selection: one write,
\* then one export, and the loop continues.
C12_DevWriteThenExport ==
    [][/\ (pc = "write" /\ pc' # "idle") =>
             /\ pc' = "export"
             /\ call'.op \in {"add_data_row", "update_data_row"}
             /\ exports' = exports
       /\ (pc = "export") =>
             /\ pc' = "select"
             /\ exports' = exports + 1
             /\ files' = files]_vars

\* The same on the top-level command, which asks whether to continue.
C12_TopWriteThenExport ==
    [][/\ (pc = "write" /\ pc' # "idle") =>
             /\ pc' = "export"
             /\ call'.op = "add_data_row"
             /\ exports' = exports
       /\ (pc = "export") =>
             /\ pc' = "continue"
             /\ exports' = exports + 1
             /\ files' = files
       /\ (pc = "continue" /\ pc' # "idle") => pc' = "select"]_vars

====
